---- MODULE Spec2Model ----
(***************************************************************************)
(* Smart Resume Screener: the persisted store (resumes, jobs, matches),    *)
(* the request handlers of app/main.py, the repository functions of        *)
(* app/repositories.py and the matcher of app/services/matcher.py.         *)
(*                                                                         *)
(* Encoding of Python values.  A Python/JSON value is a tagged record:     *)
(*   Null = None, Str(s), Num(n), List(items), Obj(score, reasoning);      *)
(*   Absent marks a key that a mapping does not hold.                      *)
(* A Python float is a fixed-point integer in hundredths: 700 is 7.00 and  *)
(* Num(500) is 5.0.  heuristic_match rounds to two decimals, so its result *)
(* is exact in this unit.  Python ints (ids, counts, limits) are plain.    *)
(* A text is a sequence of lines; the lines are those of SampleLines, and  *)
(* the regular expressions of the parser are tabulated on them.            *)
(***************************************************************************)
EXTENDS Integers, Sequences, FiniteSets, TLC

VARIABLES
    settings,    \* the cached Settings instance (config.get_settings)
    envKey,      \* whether OPENAI_API_KEY is set in the environment now
    resumes,     \* table resumes: set of rows
    jobs,        \* table job_descriptions: set of rows
    matches,     \* table match_results: set of rows
    ops,         \* in-flight match_job requests: op id -> frame
    harness      \* the call under test of the pure-function specifications

vars == <<settings, envKey, resumes, jobs, matches, ops, harness>>

-----------------------------------------------------------------------------
(* Bounds of the model.                                                    *)

MaxResumes == 2
MaxJobs == 1
MaxOps == 2
MaxEntries == 3
MaxMatchId == 3
MaxCalls == 2

-----------------------------------------------------------------------------
(* Python values.                                                          *)

Null == [t |-> "null"]
Absent == [t |-> "absent"]
Str(s) == [t |-> "str", s |-> s]
Num(n) == [t |-> "num", n |-> n]
PyInt(n) == [t |-> "int", n |-> n]
List(items) == [t |-> "list", items |-> items]
Obj(score, reasoning) == [t |-> "dict", score |-> score, reasoning |-> reasoning]

\* bool(v), as used by `or`, `if` and `not`
Truthy(v) ==
    CASE v.t = "null" -> FALSE
      [] v.t = "absent" -> FALSE
      [] v.t = "str" -> v.s # ""
      [] v.t = "num" -> v.n # 0
      [] v.t = "int" -> v.n # 0
      [] v.t = "bool" -> v.b
      [] v.t = "list" -> v.items # <<>>
      [] OTHER -> TRUE

\* a or b
PyOr(a, b) == IF Truthy(a) THEN a ELSE b

\* mapping.get(key): None for a key the mapping does not hold
Get(v) == IF v.t = "absent" THEN Null ELSE v

\* str.lower() on the strings of the model
Lower(s) ==
    CASE s = "Python" -> "python"
      [] s = "AWS" -> "aws"
      [] s = "SQL" -> "sql"
      [] OTHER -> s

\* float(str): the numeric-looking strings of the model
NumericStrings == {"5", "0", "8.5"}

StrToNum(s) ==
    CASE s = "5" -> 500
      [] s = "0" -> 0
      [] s = "8.5" -> 850
      [] OTHER -> 0

RECURSIVE SeqToSet(_)
SeqToSet(s) == IF s = <<>> THEN {} ELSE {Head(s)} \cup SeqToSet(Tail(s))

Max(a, b) == IF a >= b THEN a ELSE b
Min(a, b) == IF a <= b THEN a ELSE b

RECURSIVE SetToSortedSeq(_)
\* sorted(set) for sets of strings of the model, by the rank given in SkillRank
SkillRank(s) ==
    CASE s = "aws" -> 1
      [] s = "docker" -> 2
      [] s = "python" -> 3
      [] s = "sql" -> 4
      [] OTHER -> 5

SetToSortedSeq(S) ==
    IF S = {} THEN <<>>
    ELSE LET m == CHOOSE x \in S : \A y \in S : SkillRank(x) <= SkillRank(y)
         IN <<m>> \o SetToSortedSeq(S \ {m})

RECURSIVE MapStr(_)
\* a list of Python strings from a sequence of strings
MapStr(s) == IF s = <<>> THEN <<>> ELSE <<Str(Head(s))>> \o MapStr(Tail(s))

-----------------------------------------------------------------------------
(* app/services/parser.py                                                  *)

\* The lines resume texts are made of.
SampleLines ==
    {"", "   ", "Jane Doe", "jane@x.com", "Skills", "Skills::", "Python, AWS",
     "  Python, AWS ", "Experience", "5 years of experience.", "Education:",
     "BSc 2017", "MSc 2019", "Testing background with basic exposure."}

\* line.strip()
Strip(line) ==
    CASE line = "   " -> ""
      [] line = "  Python, AWS " -> "Python, AWS"
      [] OTHER -> line

\* _SECTION_HEADERS, lines 170-175: the section a stripped line names when its
\* lower-cased form, or that form without its trailing colons (rstrip(":")),
\* is a keyword; "" when the line is no header
HeaderOf(line) ==
    CASE line = "Skills" -> "skills"
      [] line = "Skills::" -> "skills"
      [] line = "Experience" -> "experience"
      [] line = "Education:" -> "education"
      [] OTHER -> ""

\* _SKILL_KEYWORDS occurring as substrings of the lower-cased line
LineSkills(line) ==
    CASE line = "Python, AWS" -> {"python", "aws"}
      [] line = "  Python, AWS " -> {"python", "aws"}
      [] OTHER -> {}

\* _EXPERIENCE_YEARS_PATTERN.findall on the line
LineYears(line) ==
    CASE line = "5 years of experience." -> {500}
      [] OTHER -> {}

\* _EMAIL_PATTERN.search on the line
LineEmail(line) ==
    CASE line = "jane@x.com" -> Str("jane@x.com")
      [] OTHER -> Null

\* _YEAR_PATTERN.findall on the line
LineFourDigit(line) ==
    CASE line = "BSc 2017" -> {2017}
      [] line = "MSc 2019" -> {2019}
      [] OTHER -> {}

\* len(stripped.split())
TokenCount(line) ==
    CASE line = "" -> 0
      [] line = "Jane Doe" -> 2
      [] line = "jane@x.com" -> 1
      [] line = "Skills" -> 1
      [] line = "Skills::" -> 1
      [] line = "Python, AWS" -> 2
      [] line = "Experience" -> 1
      [] line = "5 years of experience." -> 4
      [] line = "Education:" -> 1
      [] line = "BSc 2017" -> 2
      [] line = "MSc 2019" -> 2
      [] OTHER -> 5

\* "resume" or "curriculum vitae" occurs in the lower-cased line
ContainsResumeWord(line) == FALSE

MaxNameTokens == 5

RECURSIVE _infer_name(_)
_infer_name(text) ==
    IF text = <<>> THEN Null
    ELSE LET stripped == Strip(Head(text))
         IN IF stripped = "" THEN _infer_name(Tail(text))
            ELSE IF LineEmail(stripped) # Null THEN _infer_name(Tail(text))
            ELSE IF ContainsResumeWord(stripped) THEN _infer_name(Tail(text))
            ELSE IF TokenCount(stripped) <= MaxNameTokens THEN Str(stripped)
            ELSE _infer_name(Tail(text))

RECURSIVE _find_first_email(_)
_find_first_email(text) ==
    IF text = <<>> THEN Null
    ELSE IF LineEmail(Head(text)) # Null THEN LineEmail(Head(text))
    ELSE _find_first_email(Tail(text))

_match_skills(text) ==
    SetToSortedSeq(UNION {LineSkills(text[i]) : i \in DOMAIN text})

_estimate_experience_years(text) ==
    LET numbers == UNION {LineYears(text[i]) : i \in DOMAIN text}
    IN IF numbers = {} THEN Null
       ELSE Num(CHOOSE n \in numbers : \A k \in numbers : k <= n)

RECURSIVE SplitLoop_keeps_header(_, _, _, _)
\* a loop that also stores a header line in the body of its section
SplitLoop_keeps_header(text, current, sections, order) ==
    IF text = <<>> THEN [sections |-> sections, order |-> order]
    ELSE LET stripped == Strip(Head(text))
             matched_section == HeaderOf(stripped)
             now == IF matched_section # "" THEN matched_section ELSE current
         IN IF stripped = "" THEN SplitLoop_keeps_header(Tail(text), current, sections, order)
            ELSE SplitLoop_keeps_header(Tail(text), now,
                           IF now \in DOMAIN sections
                           THEN [sections EXCEPT ![now] = Append(@, stripped)]
                           ELSE sections @@ (now :> <<stripped>>),
                           IF now \in SeqToSet(order) THEN order
                           ELSE Append(order, now))

RECURSIVE SplitLoop(_, _, _, _)
\* the loop of _split_into_sections: sections maps a section to its lines
SplitLoop(text, current, sections, order) ==
    IF text = <<>> THEN [sections |-> sections, order |-> order]
    ELSE LET stripped == Strip(Head(text))
             matched_section == HeaderOf(stripped)
         IN IF stripped = "" THEN SplitLoop(Tail(text), current, sections, order)
            ELSE IF matched_section # ""
            THEN SplitLoop(Tail(text), matched_section,
                           IF matched_section \in DOMAIN sections THEN sections
                           ELSE sections @@ (matched_section :> <<>>),
                           IF matched_section \in DOMAIN sections THEN order
                           ELSE Append(order, matched_section))
            ELSE SplitLoop(Tail(text), current,
                           IF current \in DOMAIN sections
                           THEN [sections EXCEPT ![current] = Append(@, stripped)]
                           ELSE sections @@ (current :> <<stripped>>),
                           IF current \in SeqToSet(order) THEN order
                           ELSE Append(order, current))

\* a section body is the sequence of its lines (joined by newlines in the code)
_split_into_sections(text) == SplitLoop(text, "summary", <<>>, <<>>)

RECURSIVE SplitBlocks(_, _)
\* education_section.split("\n\n") with each block stripped and the empty
\* blocks dropped, on a section given by its lines: "\n\n" stands where the
\* section holds an empty line, so the blocks are the runs of non-empty lines
SplitBlocks(lines, block) ==
    IF lines = <<>> THEN (IF block = <<>> THEN <<>> ELSE <<block>>)
    ELSE IF Head(lines) = ""
    THEN (IF block = <<>> THEN <<>> ELSE <<block>>) \o SplitBlocks(Tail(lines), <<>>)
    ELSE SplitBlocks(Tail(lines), Append(block, Head(lines)))

RECURSIVE SortedYears(_)
\* sorted(set(years)): four-digit strings sort as their numbers do
SortedYears(S) ==
    IF S = {} THEN <<>>
    ELSE LET m == CHOOSE x \in S : \A y \in S : x <= y
         IN <<m>> \o SortedYears(S \ {m})

\* the entry of one block: the key "years" is set only when the block holds a
\* four-digit number; its value is the sorted years, joined with "-"
EducationEntry(block) ==
    LET years == UNION {LineFourDigit(block[i]) : i \in DOMAIN block}
    IN [summary |-> block,
        years |-> IF years = {} THEN Absent
                  ELSE [t |-> "joined", sep |-> "-", parts |-> SortedYears(years)]]

\* the section is the sequence of its lines (joined by "\n" in the code)
_extract_education(education_section) ==
    LET blocks == SplitBlocks(education_section, <<>>)
    IN [k \in DOMAIN blocks |-> EducationEntry(blocks[k])]

parse_resume_text(text) ==
    LET split == _split_into_sections(text)
        sections == split.sections
        skills == _match_skills(text)
        experience_years == _estimate_experience_years(text)
        education == IF "education" \in DOMAIN sections
                     THEN sections["education"] ELSE <<>>
        withSkills == IF "skills" \notin DOMAIN sections /\ skills # <<>>
                      THEN sections @@ ("skills" :> <<"<joined skills>">>)
                      ELSE sections
        withExperience ==
            IF "experience" \notin DOMAIN sections /\ experience_years # Null
            THEN withSkills @@ ("experience" :> <<"<estimated years>">>)
            ELSE withSkills
    IN [raw_text |-> text,
        candidate_name |-> _infer_name(text),
        contact_email |-> _find_first_email(text),
        contact_phone |-> Null,
        skills |-> List(MapStr(skills)),
        experience_years |-> experience_years,
        education_entries |-> List(_extract_education(education)),
        sections |-> [t |-> "dict", bodies |-> withExperience,
                      section_order |-> split.order]]

\* ParsedResume.as_dict
as_dict(parsed) ==
    [candidate_name |-> parsed.candidate_name,
     contact_email |-> parsed.contact_email,
     contact_phone |-> parsed.contact_phone,
     skills |-> parsed.skills,
     experience_years |-> parsed.experience_years,
     education_entries |-> parsed.education_entries,
     sections |-> parsed.sections]

\* float(experience) for a str, None on ValueError
FloatOrNone(s) == IF s \in NumericStrings THEN Num(StrToNum(s)) ELSE Null

\* an exception leaves the function
Raised == [raised |-> TRUE]

\* a Python bool, and a Python int beyond the range of float
PyBool(b) == [t |-> "bool", b |-> b]
BigInt == [t |-> "bigint"]

\* an experience_years that is read from strings only
StoredExperience_strings(experience) ==
    IF experience.t = "str" THEN FloatOrNone(experience.s) ELSE Null

\* from_storage, lines 95-103: isinstance(experience, (int, float)) holds for
\* float, int and bool; float(int) raises OverflowError for an int beyond the
\* range of float; a str goes through float(), None on ValueError
StoredExperience(experience) ==
    CASE experience.t = "num" -> experience
      [] experience.t = "int" -> Num(100 * experience.n)
      [] experience.t = "bool" -> Num(IF experience.b THEN 100 ELSE 0)
      [] experience.t = "bigint" -> Raised
      [] experience.t = "str" -> FloatOrNone(experience.s)
      [] OTHER -> Null

\* ParsedResume.from_storage: the resume, or Raised
from_storage(raw_text, data) ==
    LET experience_years == StoredExperience(Get(data.experience_years))
    IN IF experience_years = Raised THEN Raised
       ELSE
       [raw_text |-> raw_text,
        candidate_name |-> IF Get(data.candidate_name).t = "str"
                           THEN Get(data.candidate_name) ELSE Null,
        contact_email |-> IF Get(data.contact_email).t = "str"
                          THEN Get(data.contact_email) ELSE Null,
        contact_phone |-> IF Get(data.contact_phone).t = "str"
                          THEN Get(data.contact_phone) ELSE Null,
        skills |-> IF Get(data.skills).t = "list" THEN Get(data.skills) ELSE List(<<>>),
        experience_years |-> experience_years,
        education_entries |-> IF Get(data.education_entries).t = "list"
                              THEN Get(data.education_entries) ELSE List(<<>>),
        sections |-> IF Get(data.sections).t = "dict" THEN Get(data.sections)
                     ELSE [t |-> "dict", bodies |-> <<>>, section_order |-> <<>>]]

-----------------------------------------------------------------------------
(* app/services/matcher.py                                                 *)

\* _estimate_required_experience: what its pattern finds in the job
\* descriptions of the model
DefaultRequiredExperience == 300

_estimate_required_experience(text) ==
    CASE text = "We need 3 years of experience with Python, SQL, and AWS." -> 300
      [] text = "Looking for 10 years of experience." -> 1000
      [] text = "0 years of experience needed." -> 0
      [] OTHER -> DefaultRequiredExperience

\* whether item.lower() exists: only str has it
HasLower(item) == item.t = "str"

\* _skill_overlap: a fraction [num, den], or the AttributeError of a non-str skill
_skill_overlap(resume_skills, required) ==
    IF \E i \in DOMAIN resume_skills : ~HasLower(resume_skills[i])
    THEN [raised |-> TRUE]
    ELSE LET resume_set == {Lower(resume_skills[i].s) : i \in DOMAIN resume_skills}
             required_set == {Lower(required[i]) : i \in DOMAIN required}
             overlap == resume_set \cap required_set
         IN IF required_set = {}
            THEN [raised |-> FALSE, num |-> IF resume_set # {} THEN 1 ELSE 0, den |-> 1]
            ELSE [raised |-> FALSE, num |-> Cardinality(overlap),
                  den |-> Cardinality(required_set)]

\* _experience_alignment: a fraction [num, den] in [0, 1]
_experience_alignment(resume_years, required_years) ==
    IF required_years <= 0 THEN [num |-> 1, den |-> 1]
    ELSE [num |-> Max(0, Min(resume_years, required_years)), den |-> required_years]

\* round(n / d) to the nearest integer, ties to even, for d > 0
RoundDiv(n, d) ==
    LET q == n \div d
        r == n % d
    IN IF 2 * r < d THEN q
       ELSE IF 2 * r > d THEN q + 1
       ELSE IF q % 2 = 0 THEN q ELSE q + 1

SkillWeight == 7
ExperienceWeight == 3

\* heuristic_match: [raised, score, reasoning]
heuristic_match(resume, job) ==
    LET skill_score == _skill_overlap(resume.skills.items, job.required_skills)
        resume_experience == IF Truthy(resume.experience_years)
                             THEN resume.experience_years.n ELSE 0
        required_experience == _estimate_required_experience(job.description)
        experience_score == _experience_alignment(resume_experience, required_experience)
    IN IF skill_score.raised THEN [raised |-> TRUE]
       ELSE [raised |-> FALSE,
             score |-> RoundDiv(
                 100 * (SkillWeight * skill_score.num * experience_score.den
                        + ExperienceWeight * experience_score.num * skill_score.den),
                 skill_score.den * experience_score.den),
             reasoning |-> [kind |-> "heuristic",
                            candidate |-> IF Truthy(resume.candidate_name)
                                          THEN resume.candidate_name ELSE Null,
                            skill |-> skill_score,
                            experience |-> resume_experience,
                            requirement |-> required_experience]]

\* The text of a model response, by what decoding it gives:
\*   empty    ""
\*   json     the text is the JSON encoding of value v
\*   wrapped  prose around one JSON object v (first "{" to last "}" decodes)
\*   braces   the text holds a "{...}" region that is not JSON
\*   prose    the text holds no "{...}" region
\* json.loads(text): [ok, v]
json_loads(text) ==
    IF text.form = "json" THEN [ok |-> TRUE, v |-> text.v] ELSE [ok |-> FALSE]

\* re.search(r"\{.*\}", text, re.DOTALL), decoded: [found, ok, v]
BraceRegion(text) ==
    CASE text.form = "wrapped" -> [found |-> TRUE, ok |-> TRUE, v |-> text.v]
      [] text.form = "braces" -> [found |-> TRUE, ok |-> FALSE]
      [] OTHER -> [found |-> FALSE, ok |-> FALSE]

EmptyDict == Obj(Absent, Absent)

_parse_json_response(text) ==
    IF text.form = "empty" THEN EmptyDict
    ELSE IF json_loads(text).ok THEN json_loads(text).v
    ELSE IF BraceRegion(text).found /\ BraceRegion(text).ok THEN BraceRegion(text).v
    ELSE EmptyDict

\* float(x): [ok, n]; TypeError or ValueError give ok = FALSE
PyFloat(x) ==
    CASE x.t = "num" -> [ok |-> TRUE, n |-> x.n]
      [] x.t = "str" /\ x.s \in NumericStrings -> [ok |-> TRUE, n |-> StrToNum(x.s)]
      [] OTHER -> [ok |-> FALSE]

\* the reasoning of _call_openai (lines 95-99)
ReasoningOf(reasoning_field) ==
    IF reasoning_field.t = "list"
    THEN [kind |-> "llm", lines |-> reasoning_field.items]
    ELSE IF Truthy(reasoning_field)
    THEN [kind |-> "llm", lines |-> <<reasoning_field>>]
    ELSE [kind |-> "llm", lines |-> <<Str("No reasoning provided.")>>]

\* What the external model does on one call: it raises (network error, timeout)
\* or answers with a text.
\* _call_openai: [raised, score, reasoning, model_used]
_call_openai(model, llm) ==
    IF llm.kind = "raise" THEN [raised |-> TRUE]
    ELSE LET parsed == _parse_json_response(llm.text)
         IN IF parsed.t # "dict" THEN [raised |-> TRUE]     \* no .get
            ELSE LET score == PyFloat(IF parsed.score.t = "absent" THEN Num(0)
                                      ELSE parsed.score)
                 IN IF ~score.ok THEN [raised |-> TRUE]
                    ELSE [raised |-> FALSE, score |-> score.n,
                          reasoning |-> ReasoningOf(Get(parsed.reasoning)),
                          model_used |-> Str(model)]

\* LLMMatcher.__init__: the matcher holds a client when the settings hold a key
\* (the openai package being installed)
NewMatcher(s) == [client |-> s.openai_api_key, model |-> s.llm_model]

\* a score that looks for the credential again on every call
score_rechecks(matcher, resume, job, llm) ==
    LET response == _call_openai(matcher.model, llm)
        fallback == heuristic_match(resume, job)
    IN IF (matcher.client \/ envKey) /\ ~response.raised THEN response
       ELSE IF fallback.raised THEN [raised |-> TRUE]
       ELSE [raised |-> FALSE, score |-> fallback.score,
             reasoning |-> fallback.reasoning, model_used |-> Null]

\* LLMMatcher.score: [raised, score, reasoning, model_used]
score(matcher, resume, job, llm) ==
    LET response == _call_openai(matcher.model, llm)
        fallback == heuristic_match(resume, job)
    IN IF matcher.client /\ ~response.raised THEN response
       ELSE IF fallback.raised THEN [raised |-> TRUE]
       ELSE [raised |-> FALSE, score |-> fallback.score,
             reasoning |-> fallback.reasoning, model_used |-> Null]

ShortlistThreshold == 700

\* a shortlist that keeps every entry
FilterThreshold_none(entries) == entries

RECURSIVE FilterThreshold(_)
\* [item for item in matches if item[0] >= 7.0]
FilterThreshold(entries) ==
    IF entries = <<>> THEN <<>>
    ELSE IF Head(entries).score >= ShortlistThreshold
    THEN <<Head(entries)>> \o FilterThreshold(Tail(entries))
    ELSE FilterThreshold(Tail(entries))

RECURSIVE Reverse(_)
Reverse(s) == IF s = <<>> THEN <<>> ELSE Append(Reverse(Tail(s)), Head(s))

RECURSIVE InsertAsc(_, _)
\* insert x after every element whose key is <= x's: a stable ascending insertion
InsertAsc(sorted, x) ==
    IF sorted = <<>> THEN <<x>>
    ELSE IF Head(sorted).score <= x.score
    THEN <<Head(sorted)>> \o InsertAsc(Tail(sorted), x)
    ELSE <<x>> \o sorted

RECURSIVE StableSortAsc(_)
StableSortAsc(s) ==
    IF s = <<>> THEN <<>>
    ELSE InsertAsc(StableSortAsc(SubSeq(s, 1, Len(s) - 1)), s[Len(s)])

\* a descending sort that reverses the order of equal scores
SortedReverse_unstable(s) == Reverse(StableSortAsc(s))

\* sorted(xs, key=score, reverse=True): list.sort reverses the list, sorts it
\* stably in ascending order and reverses the result
SortedReverse(s) == Reverse(StableSortAsc(Reverse(s)))

\* xs[:limit], also for a negative limit
SliceTo(s, limit) ==
    IF limit >= 0 THEN SubSeq(s, 1, Min(limit, Len(s)))
    ELSE SubSeq(s, 1, Max(0, Len(s) + limit))

shortlist_matches(entries, limit) ==
    SliceTo(SortedReverse(FilterThreshold(entries)), limit)

-----------------------------------------------------------------------------
(* app/config.py                                                           *)

LLMModel == "gpt-4o-mini"
MaxShortlist == 5

\* Settings(): the class attributes are read from the environment when the
\* module is imported, and get_settings caches the instance
Settings(key) ==
    [openai_api_key |-> key, llm_model |-> LLMModel, max_shortlist |-> MaxShortlist]

-----------------------------------------------------------------------------
(* app/repositories.py: the tables are sets of rows                        *)

\* an INTEGER PRIMARY KEY of a new row: one more than the largest in the table
NextId(rows) ==
    IF rows = {} THEN 1
    ELSE (CHOOSE r \in rows : \A q \in rows : q.id <= r.id).id + 1

RECURSIVE RowsById(_)
\* the rows of a table in primary-key order
RowsById(rows) ==
    IF rows = {} THEN <<>>
    ELSE LET r == CHOOSE x \in rows : \A y \in rows : x.id <= y.id
         IN <<r>> \o RowsById(rows \ {r})

HasId(rows, id) == \E r \in rows : r.id = id
RowOf(rows, id) == CHOOSE r \in rows : r.id = id

\* a listing that yields every resume twice
list_resumes_twice == RowsById(resumes) \o RowsById(resumes)

\* repositories.list_resumes: the rows in primary-key order
list_resumes == RowsById(resumes)

\* the row of a JobDescription
JobRow(id, profile) ==
    [id |-> id, title |-> profile.title, description |-> profile.description,
     required_skills |-> profile.required_skills]

repo_create_job(profile) == jobs \cup {JobRow(NextId(jobs), profile)}

\* update_job: a field of the payload that is None is left as it is
repo_update_job(job, updates) ==
    [id |-> job.id,
     title |-> IF updates.title # Null THEN updates.title.s ELSE job.title,
     description |-> IF updates.description # Null THEN updates.description.s
                     ELSE job.description,
     required_skills |-> IF updates.required_skills # Null
                         THEN updates.required_skills.items ELSE job.required_skills]

\* the row of a Resume as the handlers call create_resume: the columns from
\* the fields of parsed, structured_data from parsed.as_dict()
ResumeRow(id, parsed) ==
    [id |-> id,
     candidate_name |-> parsed.candidate_name,
     contact_email |-> parsed.contact_email,
     contact_phone |-> parsed.contact_phone,
     raw_text |-> parsed.raw_text,
     skills |-> parsed.skills,
     experience_years |-> parsed.experience_years,
     education_entries |-> parsed.education_entries,
     structured_data |-> [t |-> "dict", d |-> as_dict(parsed)]]

repo_create_resume(parsed) == resumes \cup {ResumeRow(NextId(resumes), parsed)}

\* session.delete(job): the cascade of JobDescription.matches deletes the
\* job's matches with it
MatchesAfterDeleteJob(job_id) == {m \in matches : m.job_id # job_id}

\* a cascade that takes every match with it
MatchesAfterDeleteResume_all(resume_id) == {}

\* session.delete(resume): the cascade of Resume.matches
MatchesAfterDeleteResume(resume_id) == {m \in matches : m.resume_id # resume_id}

list_matches_for_job(job_id) == RowsById({m \in matches : m.job_id = job_id})

\* the select of upsert_match: the first row of the pair, None when there is none
SelectExisting(resume_id, job_id) ==
    LET found == {m \in matches : m.resume_id = resume_id /\ m.job_id = job_id}
    IN IF found = {} THEN Null ELSE RowsById(found)[1]

\* upsert_match without its update branch: every scoring adds a row
WriteMatch_append(existing, resume_id, job_id, result) ==
    matches \cup {[id |-> NextId(matches), resume_id |-> resume_id,
                   job_id |-> job_id, score |-> result.score,
                   reasoning |-> result.reasoning,
                   llm_model |-> result.model_used]}

\* the write of upsert_match: the row the select loaded is overwritten in place,
\* otherwise a new row is added
WriteMatch(existing, resume_id, job_id, result) ==
    IF existing # Null
    THEN {IF m.id = existing.id
          THEN [m EXCEPT !.score = result.score, !.reasoning = result.reasoning,
                         !.llm_model = result.model_used]
          ELSE m : m \in matches}
    ELSE matches \cup {[id |-> NextId(matches), resume_id |-> resume_id,
                        job_id |-> job_id, score |-> result.score,
                        reasoning |-> result.reasoning,
                        llm_model |-> result.model_used]}

\* the id of the row upsert_match returns
WrittenId(existing) == IF existing # Null THEN existing.id ELSE NextId(matches)

-----------------------------------------------------------------------------
(* app/main.py: the request handlers                                       *)

\* a mapping that holds none of the keys of as_dict
EmptyData ==
    [candidate_name |-> Absent, contact_email |-> Absent, contact_phone |-> Absent,
     skills |-> Absent, experience_years |-> Absent, education_entries |-> Absent,
     sections |-> Absent]

\* the texts and payloads the requests of the model carry
SampleTexts ==
    {<<"Jane Doe", "Skills", "Python, AWS", "Experience", "5 years of experience.">>,
     <<"Testing background with basic exposure.">>}

SampleNames == {Null, Str("John Smith")}

\* the bodies of POST /resumes: ResumeCreate also carries the fields of
\* ResumeBase, of which the model varies skills and structured_data
ResumePayloads ==
    {[raw_text |-> text, candidate_name |-> name, skills |-> skills,
      structured_data |-> data] :
        text \in SampleTexts, name \in SampleNames,
        skills \in {List(<<>>), List(<<Str("cobol")>>)},
        data \in {[t |-> "dict", d |-> EmptyData],
                  [t |-> "dict", d |-> [EmptyData EXCEPT !.experience_years = Num(900)]]}}

JobPayloads ==
    {[title |-> "Data Engineer",
      description |-> "We need 3 years of experience with Python, SQL, and AWS.",
      required_skills |-> <<"python", "sql", "aws">>],
     [title |-> "QA Analyst",
      description |-> "Manual and automated testing experience required.",
      required_skills |-> <<"testing", "automation">>]}

UpdatePayloads ==
    {[title |-> Null, description |-> Null,
      required_skills |-> List(<<"Python", "AWS">>)],
     [title |-> Str("Senior Engineer"),
      description |-> Str("Looking for 10 years of experience."),
      required_skills |-> Null]}

SizePayloads == {Null, PyInt(0), PyInt(1)}

\* what the external model does on the calls of the model
LLMBehaviours ==
    {[kind |-> "raise"],
     [kind |-> "text", text |-> [form |-> "json", v |-> Obj(Num(850), Str("Strong"))]]}

\* match_job, lines 147-154: the ParsedResume rebuilt from a stored row
RehydrateForMatch(resume) ==
    LET stored0 == IF resume.structured_data.t = "dict" THEN resume.structured_data.d
                   ELSE EmptyData
        stored == IF Truthy(resume.candidate_name) /\ ~Truthy(Get(stored0.candidate_name))
                  THEN [stored0 EXCEPT !.candidate_name = resume.candidate_name]
                  ELSE stored0
        parsed == from_storage(resume.raw_text, stored)
    IN IF parsed = Raised THEN Raised
       ELSE
       [parsed EXCEPT
          !.contact_email = PyOr(parsed.contact_email, resume.contact_email),
          !.contact_phone = PyOr(parsed.contact_phone, resume.contact_phone),
          !.skills = PyOr(parsed.skills, resume.skills),
          !.experience_years = PyOr(parsed.experience_years, resume.experience_years)]

\* _resume_to_schema, lines 187-196: the ParsedResume rebuilt for a response
RehydrateForRead(resume) ==
    LET stored0 == IF resume.structured_data.t = "dict" THEN resume.structured_data.d
                   ELSE EmptyData
        stored == IF Truthy(resume.candidate_name) /\ ~Truthy(Get(stored0.candidate_name))
                  THEN [stored0 EXCEPT !.candidate_name = resume.candidate_name]
                  ELSE stored0
        parsed == from_storage(resume.raw_text, stored)
    IN IF parsed = Raised THEN Raised
       ELSE
       [parsed EXCEPT
          !.candidate_name = PyOr(parsed.candidate_name, resume.candidate_name),
          !.contact_email = PyOr(parsed.contact_email, resume.contact_email),
          !.contact_phone = PyOr(parsed.contact_phone, resume.contact_phone),
          !.skills = PyOr(parsed.skills, resume.skills),
          !.experience_years = PyOr(parsed.experience_years, resume.experience_years),
          !.education_entries = PyOr(parsed.education_entries, resume.education_entries)]

JobProfile(job) ==
    [title |-> job.title, description |-> job.description,
     required_skills |-> job.required_skills]

IdleFrame ==
    [pc |-> "idle", size |-> Null, job |-> Null, matcher |-> Null, resumes |-> <<>>,
     i |-> 0, limit |-> 0, call |-> Null, pending |-> Null, existing |-> Null,
     scored |-> <<>>, response |-> Null]

\* no match_job request is in flight
Quiet == \A o \in DOMAIN ops : ops[o].pc = "idle"

\* a request that ends with an error response
Failed(frame, status) ==
    [frame EXCEPT !.pc = "done", !.response = [status |-> status, shortlisted |-> <<>>]]

\* POST /jobs
CreateJob(payload) ==
    /\ NextId(jobs) <= MaxJobs
    /\ jobs' = repo_create_job(payload)
    /\ UNCHANGED <<settings, envKey, resumes, matches, ops, harness>>

\* PATCH /jobs/{job_id}
UpdateJob(job_id, updates) ==
    /\ HasId(jobs, job_id)
    /\ jobs' = (jobs \ {RowOf(jobs, job_id)})
                  \cup {repo_update_job(RowOf(jobs, job_id), updates)}
    /\ UNCHANGED <<settings, envKey, resumes, matches, ops, harness>>

\* DELETE /jobs/{job_id}
DeleteJob(job_id) ==
    /\ HasId(jobs, job_id)
    /\ jobs' = jobs \ {RowOf(jobs, job_id)}
    /\ matches' = MatchesAfterDeleteJob(job_id)
    /\ UNCHANGED <<settings, envKey, resumes, ops, harness>>

\* a handler that overrides the name after it has taken as_dict: the column
\* holds the caller's name, structured_data the parsed one
CreateResume_column_only(payload) ==
    /\ NextId(resumes) <= MaxResumes
    /\ LET parsed == parse_resume_text(payload.raw_text)
           named == IF Truthy(payload.candidate_name)
                    THEN [parsed EXCEPT !.candidate_name = payload.candidate_name]
                    ELSE parsed
       IN resumes' = resumes \cup
            {[id |-> NextId(resumes),
              candidate_name |-> named.candidate_name,
              contact_email |-> named.contact_email,
              contact_phone |-> named.contact_phone,
              raw_text |-> named.raw_text,
              skills |-> named.skills,
              experience_years |-> named.experience_years,
              education_entries |-> named.education_entries,
              structured_data |-> [t |-> "dict", d |-> as_dict(parsed)]]}
    /\ UNCHANGED <<settings, envKey, jobs, matches, ops, harness>>

\* POST /resumes and POST /resumes/upload: of the payload only raw_text and
\* candidate_name are read
CreateResume(payload) ==
    /\ NextId(resumes) <= MaxResumes
    /\ LET parsed0 == parse_resume_text(payload.raw_text)
           parsed == IF Truthy(payload.candidate_name)
                     THEN [parsed0 EXCEPT !.candidate_name = payload.candidate_name]
                     ELSE parsed0
       IN resumes' = repo_create_resume(parsed)
    /\ UNCHANGED <<settings, envKey, jobs, matches, ops, harness>>

\* DELETE /resumes/{resume_id}
DeleteResume(resume_id) ==
    /\ HasId(resumes, resume_id)
    /\ resumes' = resumes \ {RowOf(resumes, resume_id)}
    /\ matches' = MatchesAfterDeleteResume(resume_id)
    /\ UNCHANGED <<settings, envKey, jobs, ops, harness>>

\* whether LLMMatcher.score invokes the external model
InvokesModel(matcher) == matcher.client

\* the call of the model of this request is outstanding
Outstanding(frame) == frame.pc = "calling" /\ InvokesModel(frame.matcher)

\* a call of the model made on the event loop itself
RunsInThread_inline(frame) == FALSE

\* matcher.py line 65: every call of the model is handed to a worker thread by
\* asyncio.to_thread and awaited
RunsInThread(frame) == InvokesModel(frame.matcher)

\* match_job is a coroutine of the event loop: it runs when no other request
\* holds the loop, and an awaited call in a worker thread does not hold it
LoopFree(o) ==
    \A q \in DOMAIN ops \ {o} : Outstanding(ops[q]) => RunsInThread(ops[q])

\* POST /jobs/{job_id}/match, lines 138-145: up to the loop over the resumes
MatchBegin(o, job_id, shortlist_size) ==
    /\ ops[o].pc = "idle"
    /\ LoopFree(o)
    /\ ops' = [ops EXCEPT ![o] =
          IF ~HasId(jobs, job_id)
          THEN Failed([IdleFrame EXCEPT !.size = shortlist_size], 404)
          ELSE [IdleFrame EXCEPT
                  !.pc = IF list_resumes = <<>> THEN "finish" ELSE "score",
                  !.size = shortlist_size,
                  !.job = RowOf(jobs, job_id),
                  !.matcher = NewMatcher(settings),
                  !.resumes = list_resumes,
                  !.i = 1,
                  !.limit = PyOr(shortlist_size, PyInt(settings.max_shortlist)).n]]
    /\ UNCHANGED <<settings, envKey, resumes, jobs, matches, harness>>

\* The rows of a session are loaded once and expire at its commits: before the
\* first commit of the request the loaded row is read, after it the row is
\* loaded again, which fails when the row is gone.
Loaded(frame, rows, row) ==
    IF frame.i = 1 THEN [ok |-> TRUE, row |-> row]
    ELSE IF HasId(rows, row.id) THEN [ok |-> TRUE, row |-> RowOf(rows, row.id)]
    ELSE [ok |-> FALSE]

\* lines 147-158 and matcher.py lines 57-65: the i-th resume is rebuilt, the
\* prompt is built and the call of the model is handed to a worker thread
\* (asyncio.to_thread); the request awaits the result
MatchDispatch(o) ==
    /\ ops[o].pc = "score"
    /\ LoopFree(o)
    /\ LET frame == ops[o]
           resume == Loaded(frame, resumes, frame.resumes[frame.i])
           job == Loaded(frame, jobs, frame.job)
       IN ops' = [ops EXCEPT ![o] =
            IF ~resume.ok \/ ~job.ok THEN Failed(frame, 500)
            ELSE IF RehydrateForMatch(resume.row) = Raised THEN Failed(frame, 500)
            ELSE [frame EXCEPT !.pc = "calling",
                               !.call = [resume |-> RehydrateForMatch(resume.row),
                                         job |-> JobProfile(job.row)]]]
    /\ UNCHANGED <<settings, envKey, resumes, jobs, matches, harness>>

\* matcher.py lines 65-75: the call returns (or raises) and score returns
MatchScore(o, llm) ==
    /\ ops[o].pc = "calling"
    /\ LET frame == ops[o]
           result == score(frame.matcher, frame.call.resume, frame.call.job, llm)
       IN ops' = [ops EXCEPT ![o] =
            IF result.raised THEN Failed(frame, 500)
            ELSE [frame EXCEPT !.pc = "select", !.call = Null, !.pending = result]]
    /\ UNCHANGED <<settings, envKey, resumes, jobs, matches, harness>>

\* a stop that undoes the rows this request has written
MatchesAfterStop_rollback(frame) ==
    {m \in matches : \A k \in DOMAIN frame.scored : frame.scored[k].id # m.id}

\* database.py lines 35-42: when the request stops the session is closed;
\* every upsert was committed on its own (repositories.py lines 103 and 115),
\* so nothing is pending and the store stays as it is
MatchesAfterStop(frame) == matches

\* The request is cancelled while it awaits the call of the model, the only
\* point at which match_job is suspended: CancelledError leaves the handler.
MatchCancel(o) ==
    /\ Outstanding(ops[o])
    /\ matches' = MatchesAfterStop(ops[o])
    /\ ops' = [ops EXCEPT ![o] = Failed(ops[o], 499)]
    /\ UNCHANGED <<settings, envKey, resumes, jobs, harness>>

\* upsert_match, lines 93-98: the select
MatchSelect(o) ==
    /\ ops[o].pc = "select"
    /\ LoopFree(o)
    /\ LET frame == ops[o]
       IN ops' = [ops EXCEPT ![o] =
            [frame EXCEPT
               !.pc = "write",
               !.existing = SelectExisting(frame.resumes[frame.i].id, frame.job.id)]]
    /\ UNCHANGED <<settings, envKey, resumes, jobs, matches, harness>>

\* upsert_match, lines 99-117, and line 160: the write and its commit.
\* An update of a row that is gone fails; an insert whose resume or job is gone
\* fails on a store that enforces foreign keys and succeeds on one that does not.
MatchWrite(o, enforce) ==
    /\ ops[o].pc = "write"
    /\ LoopFree(o)
    /\ ops[o].existing = Null => NextId(matches) <= MaxMatchId
    /\ LET frame == ops[o]
           resume_id == frame.resumes[frame.i].id
           gone == IF frame.existing # Null THEN ~HasId(matches, frame.existing.id)
                   ELSE enforce /\ ~(HasId(resumes, resume_id) /\ HasId(jobs, frame.job.id))
       IN IF gone
          THEN /\ ops' = [ops EXCEPT ![o] = Failed(frame, 500)]
               /\ UNCHANGED matches
          ELSE /\ matches' = WriteMatch(frame.existing, resume_id, frame.job.id,
                                        frame.pending)
               /\ ops' = [ops EXCEPT ![o] =
                    [frame EXCEPT
                       !.pc = IF frame.i < Len(frame.resumes) THEN "score" ELSE "finish",
                       !.i = frame.i + 1,
                       !.scored = Append(@, [score |-> frame.pending.score,
                                             reasoning |-> frame.pending.reasoning,
                                             id |-> WrittenId(frame.existing),
                                             llm_model |-> frame.pending.model_used])]]
    /\ UNCHANGED <<settings, envKey, resumes, jobs, harness>>

\* the (score, reasoning, id) tuples of line 164
MatchTuples(rows) ==
    [k \in DOMAIN rows |->
        [score |-> rows[k].score, reasoning |-> rows[k].reasoning, id |-> rows[k].id]]

\* lines 162-174: the shortlist of the job's matches and the response
MatchFinish(o) ==
    /\ ops[o].pc = "finish"
    /\ LoopFree(o)
    /\ LET frame == ops[o]
           rows == list_matches_for_job(frame.job.id)
           shortlist == shortlist_matches(MatchTuples(rows), frame.limit)
           shortlist_records ==
               [k \in DOMAIN shortlist |->
                   rows[CHOOSE n \in DOMAIN rows : rows[n].id = shortlist[k].id]]
       IN ops' = [ops EXCEPT ![o] =
            [frame EXCEPT !.pc = "done",
                          !.response = [status |-> 200, shortlisted |-> shortlist_records]]]
    /\ UNCHANGED <<settings, envKey, resumes, jobs, matches, harness>>

\* the response is sent and the request is over
MatchReturn(o) ==
    /\ ops[o].pc = "done"
    /\ LoopFree(o)
    /\ ops' = [ops EXCEPT ![o] = IdleFrame]
    /\ UNCHANGED <<settings, envKey, resumes, jobs, matches, harness>>

IdleHarness == [kind |-> "idle"]

\* The store is empty when the service starts; the settings were read from the
\* environment at import.
Init ==
    /\ envKey \in BOOLEAN
    /\ settings = Settings(envKey)
    /\ resumes = {}
    /\ jobs = {}
    /\ matches = {}
    /\ ops = [o \in 1..MaxOps |-> IdleFrame]
    /\ harness = IdleHarness

\* One request at a time: every handler runs to completion before the next.
Next ==
    \/ Quiet /\ \E payload \in JobPayloads : CreateJob(payload)
    \/ Quiet /\ \E j \in 1..MaxJobs, u \in UpdatePayloads : UpdateJob(j, u)
    \/ Quiet /\ \E j \in 1..MaxJobs : DeleteJob(j)
    \/ Quiet /\ \E payload \in ResumePayloads : CreateResume(payload)
    \/ Quiet /\ \E r \in 1..MaxResumes : DeleteResume(r)
    \/ Quiet /\ \E j \in 1..MaxJobs + 1, size \in SizePayloads : MatchBegin(1, j, size)
    \/ MatchDispatch(1)
    \/ \E llm \in LLMBehaviours : MatchScore(1, llm)
    \/ MatchCancel(1)
    \/ MatchSelect(1)
    \/ MatchWrite(1, TRUE)
    \/ MatchFinish(1)
    \/ MatchReturn(1)

Spec == Init /\ [][Next]_vars

\* the requests of the concurrent specification
ConcResumePayloads ==
    {[raw_text |-> <<"Jane Doe", "Skills", "Python, AWS", "Experience",
                     "5 years of experience.">>,
      candidate_name |-> Null, skills |-> List(<<>>),
      structured_data |-> [t |-> "dict", d |-> EmptyData]]}

ConcJobPayloads ==
    {[title |-> "Data Engineer",
      description |-> "We need 3 years of experience with Python, SQL, and AWS.",
      required_skills |-> <<"python", "sql", "aws">>]}

ConcLLMBehaviours ==
    {[kind |-> "text", text |-> [form |-> "json", v |-> Obj(Num(850), Str("Strong"))]]}

\* Requests served concurrently (several worker processes on one store, the
\* handlers of the thread pool beside the event loop): the steps of one request
\* interleave with the steps of the others, and the store runs each statement
\* on its own.
NextConc ==
    \/ \E payload \in ConcJobPayloads : CreateJob(payload)
    \/ \E j \in 1..MaxJobs : DeleteJob(j)
    \/ resumes = {} /\ \E payload \in ConcResumePayloads : CreateResume(payload)
    \/ \E r \in 1..MaxResumes : DeleteResume(r)
    \/ \E o \in 1..MaxOps, j \in 1..MaxJobs : MatchBegin(o, j, Null)
    \/ \E o \in 1..MaxOps : MatchDispatch(o)
    \/ \E o \in 1..MaxOps, llm \in ConcLLMBehaviours : MatchScore(o, llm)
    \/ \E o \in 1..MaxOps : MatchCancel(o)
    \/ \E o \in 1..MaxOps : MatchSelect(o)
    \/ \E o \in 1..MaxOps, enforce \in BOOLEAN : MatchWrite(o, enforce)
    \/ \E o \in 1..MaxOps : MatchFinish(o)
    \/ \E o \in 1..MaxOps : MatchReturn(o)

SpecConc == Init /\ [][NextConc]_vars

-----------------------------------------------------------------------------
(* A match request that runs alone on a store earlier requests have left:   *)
(* the earlier requests were served concurrently, the request observed      *)
(* begins when none of them is in flight and runs to its end before any     *)
(* other request is served.                                                 *)

\* the frame of the request that runs alone
SoloOp == MaxOps + 1

\* no request is in flight beside the one that runs alone
OthersQuiet == \A o \in DOMAIN ops \ {SoloOp} : ops[o].pc = "idle"

InitSolo ==
    /\ envKey \in BOOLEAN
    /\ settings = Settings(envKey)
    /\ resumes = {}
    /\ jobs = {}
    /\ matches = {}
    /\ ops = [o \in 1..SoloOp |-> IdleFrame]
    /\ harness = IdleHarness

NextSolo ==
    \/ ops[SoloOp].pc = "idle" /\ NextConc
    \/ OthersQuiet /\ \E j \in 1..MaxJobs + 1 : MatchBegin(SoloOp, j, Null)
    \/ MatchDispatch(SoloOp)
    \/ \E llm \in ConcLLMBehaviours : MatchScore(SoloOp, llm)
    \/ MatchCancel(SoloOp)
    \/ MatchSelect(SoloOp)
    \/ \E enforce \in BOOLEAN : MatchWrite(SoloOp, enforce)
    \/ MatchFinish(SoloOp)
    \/ MatchReturn(SoloOp)

SpecSolo == InitSolo /\ [][NextSolo]_vars

-----------------------------------------------------------------------------
(* Match requests over a store that holds one job and two resumes, created *)
(* by POST /jobs and POST /resumes before: the requests interleave at the  *)
(* awaited call of the model.                                              *)

BatchJob ==
    [title |-> "Data Engineer",
     description |-> "We need 3 years of experience with Python, SQL, and AWS.",
     required_skills |-> <<"python", "sql", "aws">>]

BatchTexts ==
    <<<<"Jane Doe", "Skills", "Python, AWS", "Experience", "5 years of experience.">>,
      <<"Testing background with basic exposure.">>>>

InitBatch ==
    /\ envKey \in BOOLEAN
    /\ settings = Settings(envKey)
    /\ resumes = {ResumeRow(k, parse_resume_text(BatchTexts[k])) : k \in 1..2}
    /\ jobs = {JobRow(1, BatchJob)}
    /\ matches = {}
    /\ ops = [o \in 1..MaxOps |-> IdleFrame]
    /\ harness = IdleHarness

NextBatch ==
    \/ \E o \in 1..MaxOps : MatchBegin(o, 1, Null)
    \/ \E o \in 1..MaxOps : MatchDispatch(o)
    \/ \E o \in 1..MaxOps, llm \in LLMBehaviours : MatchScore(o, llm)
    \/ \E o \in 1..MaxOps : MatchCancel(o)
    \/ \E o \in 1..MaxOps : MatchSelect(o)
    \/ \E o \in 1..MaxOps : MatchWrite(o, TRUE)
    \/ \E o \in 1..MaxOps : MatchFinish(o)
    \/ \E o \in 1..MaxOps : MatchReturn(o)

SpecBatch == InitBatch /\ [][NextBatch]_vars

-----------------------------------------------------------------------------
(* LLMMatcher on its own: one matcher, built once, scoring one resume       *)
(* rebuilt from persisted data against one job, call after call.           *)

\* the structured_data a store may hold for a resume
PersistedData ==
    {[EmptyData EXCEPT !.candidate_name = name, !.skills = skills,
                       !.experience_years = experience] :
        name \in {Null, Str("Jane Doe"), Num(100)},
        skills \in {Absent, Null, Str("python"), List(<<>>),
                    List(<<Str("Python"), Str("aws")>>), List(<<Num(500)>>)},
        experience \in {Absent, Num(0), Num(500), Str("5"), Str("abc")}}

ScoreJobs ==
    JobPayloads \cup
    {[title |-> "Any", description |-> "0 years of experience needed.",
      required_skills |-> <<>>]}

\* every kind of answer of the external model
ScoreLLMBehaviours ==
    {[kind |-> "raise"]} \cup
    {[kind |-> "text", text |-> text] :
        text \in {[form |-> "empty"], [form |-> "prose"], [form |-> "braces"],
                  [form |-> "wrapped", v |-> Obj(Num(550), Str("Below threshold"))]}
                 \cup {[form |-> "json", v |-> v] :
                          v \in {Obj(Num(850), Str("Strong")),
                                 Obj(Num(1500), Null),
                                 Obj(Num(-100), Str("Poor")),
                                 Obj(Str("8.5"), List(<<Str("a"), Str("b")>>)),
                                 Obj(Str("high"), Str("x")),
                                 Obj(Absent, Str("x")),
                                 Obj(Null, Str("x")),
                                 List(<<>>)}}}

InitScore ==
    /\ envKey \in BOOLEAN
    /\ settings = Settings(envKey)
    /\ resumes = {}
    /\ jobs = {}
    /\ matches = {}
    /\ ops = [o \in 1..MaxOps |-> IdleFrame]
    /\ \E data \in PersistedData, job \in ScoreJobs :
          harness = [kind |-> "score", resume |-> from_storage(<<>>, data), job |-> job,
                     matcher |-> Null, calls |-> 0, invoked |-> 0,
                     llm |-> Null, result |-> Null]

\* matcher = LLMMatcher()
ScoreConstruct ==
    /\ harness.kind = "score"
    /\ harness.matcher = Null
    /\ harness' = [harness EXCEPT !.matcher = NewMatcher(settings)]
    /\ UNCHANGED <<settings, envKey, resumes, jobs, matches, ops>>

\* OPENAI_API_KEY is set or unset in the environment of the running process
ScoreEnvChange ==
    /\ harness.kind = "score"
    /\ envKey' = ~envKey
    /\ UNCHANGED <<settings, resumes, jobs, matches, ops, harness>>

\* await matcher.score(resume, job), with the external model doing llm
ScoreCall(llm) ==
    /\ harness.kind = "score"
    /\ harness.matcher # Null
    /\ harness.calls < MaxCalls
    /\ harness' = [harness EXCEPT
          !.calls = @ + 1,
          !.invoked = IF InvokesModel(harness.matcher) THEN @ + 1 ELSE @,
          !.llm = llm,
          !.result = score(harness.matcher, harness.resume, harness.job, llm)]
    /\ UNCHANGED <<settings, envKey, resumes, jobs, matches, ops>>

NextScore ==
    \/ ScoreConstruct
    \/ ScoreEnvChange
    \/ \E llm \in ScoreLLMBehaviours : ScoreCall(llm)

SpecScore == InitScore /\ [][NextScore]_vars

-----------------------------------------------------------------------------
(* shortlist_matches on its own.                                           *)

ShortlistScores == {550, 700, 850}

RECURSIVE SeqsUpTo(_, _)
\* the sequences over S of length at most n
SeqsUpTo(S, n) ==
    IF n = 0 THEN {<<>>}
    ELSE SeqsUpTo(S, n - 1) \cup
         {Append(s, x) : s \in {q \in SeqsUpTo(S, n - 1) : Len(q) = n - 1}, x \in S}

\* the k-th entry of a batch has id k
EntriesOf(scores) ==
    [k \in DOMAIN scores |-> [score |-> scores[k], reasoning |-> "r", id |-> k]]

InitShortlist ==
    /\ envKey = FALSE
    /\ settings = Settings(envKey)
    /\ resumes = {}
    /\ jobs = {}
    /\ matches = {}
    /\ ops = [o \in 1..MaxOps |-> IdleFrame]
    /\ \E scores \in SeqsUpTo(ShortlistScores, MaxEntries), limit \in -1..MaxEntries :
          harness = [kind |-> "shortlist", entries |-> EntriesOf(scores),
                     limit |-> limit, done |-> FALSE, result |-> <<>>]

ShortlistCall ==
    /\ harness.kind = "shortlist"
    /\ ~harness.done
    /\ harness' = [harness EXCEPT
          !.done = TRUE,
          !.result = shortlist_matches(harness.entries, harness.limit)]
    /\ UNCHANGED <<settings, envKey, resumes, jobs, matches, ops>>

NextShortlist == ShortlistCall

SpecShortlist == InitShortlist /\ [][NextShortlist]_vars

-----------------------------------------------------------------------------
(* heuristic_match on its own.                                             *)

\* the persisted data the resumes of the heuristic are rebuilt from
HeuristicData ==
    {[EmptyData EXCEPT !.skills = skills, !.experience_years = experience] :
        skills \in {Absent, List(<<>>), List(<<Str("python")>>),
                    List(<<Str("Python"), Str("aws")>>), List(<<Str("docker")>>),
                    List(<<Num(500)>>)},
        experience \in {Absent, Num(-200), Num(0), Num(200), Num(500)}}

HeuristicJobs ==
    ScoreJobs \cup
    {[title |-> "Senior Engineer", description |-> "Looking for 10 years of experience.",
      required_skills |-> <<"Python", "python", "SQL">>]}

InitHeuristic ==
    /\ envKey = FALSE
    /\ settings = Settings(envKey)
    /\ resumes = {}
    /\ jobs = {}
    /\ matches = {}
    /\ ops = [o \in 1..MaxOps |-> IdleFrame]
    /\ \E data \in HeuristicData, job \in HeuristicJobs :
          harness = [kind |-> "heuristic", resume |-> from_storage(<<>>, data),
                     job |-> job, done |-> FALSE, result |-> Null]

\* heuristic_match(resume, job)
HeuristicCall ==
    /\ harness.kind = "heuristic"
    /\ ~harness.done
    /\ harness' = [harness EXCEPT
          !.done = TRUE,
          !.result = heuristic_match(harness.resume, harness.job)]
    /\ UNCHANGED <<settings, envKey, resumes, jobs, matches, ops>>

NextHeuristic == HeuristicCall

SpecHeuristic == InitHeuristic /\ [][NextHeuristic]_vars

-----------------------------------------------------------------------------
(* The parser on its own: one text is split into sections, parsed, and the *)
(* parse is rebuilt from its as_dict form.                                 *)

MaxLines == 4

\* the lines the texts of the parser are made of
ParseLines ==
    {"", "   ", "Jane Doe", "Skills", "Skills::", "  Python, AWS ",
     "5 years of experience.", "Education:", "BSc 2017", "MSc 2019"}

InitParse ==
    /\ envKey = FALSE
    /\ settings = Settings(envKey)
    /\ resumes = {}
    /\ jobs = {}
    /\ matches = {}
    /\ ops = [o \in 1..MaxOps |-> IdleFrame]
    /\ \E text \in SeqsUpTo(ParseLines, MaxLines) :
          harness = [kind |-> "parse", text |-> text, pc |-> "text",
                     split |-> Null, parsed |-> Null, restored |-> Null]

\* sections, order = _split_into_sections(text)
SplitCall ==
    /\ harness.kind = "parse"
    /\ harness.pc = "text"
    /\ harness' = [harness EXCEPT !.pc = "split",
                                  !.split = _split_into_sections(harness.text)]
    /\ UNCHANGED <<settings, envKey, resumes, jobs, matches, ops>>

\* parsed = parse_resume_text(text)
ParseCall ==
    /\ harness.kind = "parse"
    /\ harness.pc = "split"
    /\ harness' = [harness EXCEPT !.pc = "parsed",
                                  !.parsed = parse_resume_text(harness.text)]
    /\ UNCHANGED <<settings, envKey, resumes, jobs, matches, ops>>

\* ParsedResume.from_storage(parsed.raw_text, parsed.as_dict())
RestoreCall ==
    /\ harness.kind = "parse"
    /\ harness.pc = "parsed"
    /\ harness' = [harness EXCEPT
          !.pc = "restored",
          !.restored = from_storage(harness.parsed.raw_text, as_dict(harness.parsed))]
    /\ UNCHANGED <<settings, envKey, resumes, jobs, matches, ops>>

NextParse ==
    \/ SplitCall
    \/ ParseCall
    \/ RestoreCall

SpecParse == InitParse /\ [][NextParse]_vars

-----------------------------------------------------------------------------
(* Re-hydration on its own: one stored row, whose structured data and      *)
(* columns need not agree (rows written by an earlier version, or edited   *)
(* in the store), is rebuilt by from_storage, by the read path and by the  *)
(* match path.                                                             *)

SampleEntry == [summary |-> <<"BSc 2017">>,
                years |-> [t |-> "joined", sep |-> "-", parts |-> <<2017>>]]

ColumnEntry == [summary |-> <<"MSc 2019">>,
                years |-> [t |-> "joined", sep |-> "-", parts |-> <<2019>>]]

RowFields ==
    {"candidate_name", "contact_email", "contact_phone", "skills",
     "experience_years", "education_entries", "sections"}

\* the values structured_data may hold under a key
StoredValues(field) ==
    CASE field \in {"candidate_name", "contact_email", "contact_phone"} ->
            {Absent, Null, Str(""), Str("Jane Doe"), Num(100), List(<<>>)}
      [] field = "skills" ->
            {Absent, Null, List(<<>>), List(<<Str("python")>>), Str("python"), Num(500)}
      [] field = "education_entries" ->
            {Absent, Null, List(<<>>), List(<<SampleEntry>>), Str("BSc"), Num(500)}
      [] field = "experience_years" ->
            {Absent, Null, Num(0), Num(500), PyInt(0), PyInt(5), Str("5"), Str("abc"),
             List(<<>>), PyBool(TRUE), BigInt}
      [] OTHER ->
            {Absent, Null, List(<<>>), Str("summary"),
             [t |-> "dict", bodies |-> <<>>, section_order |-> <<"summary">>]}

\* the values the column of the same name may hold
ColumnValues(field) ==
    CASE field \in {"candidate_name", "contact_email", "contact_phone"} ->
            {Null, Str("Column Value")}
      [] field = "skills" -> {List(<<>>), List(<<Str("sql")>>)}
      [] field = "education_entries" -> {List(<<>>), List(<<ColumnEntry>>)}
      [] field = "experience_years" -> {Null, Num(0), Num(300)}
      [] OTHER -> {Null}

EmptyRow ==
    [id |-> 1, raw_text |-> <<>>, candidate_name |-> Null, contact_email |-> Null,
     contact_phone |-> Null, skills |-> List(<<>>), experience_years |-> Null,
     education_entries |-> List(<<>>), sections |-> Null,
     structured_data |-> [t |-> "dict", d |-> EmptyData]]

\* a row that holds v under the key of structured_data and c in the column
RowWith(field, v, c) ==
    [[EmptyRow EXCEPT ![field] = c]
        EXCEPT !.structured_data = [t |-> "dict", d |-> [EmptyData EXCEPT ![field] = v]]]

\* the mapping the callers of from_storage pass (main.py, lines 147 and 187)
StoredMapping(row) ==
    IF row.structured_data.t = "dict" THEN row.structured_data.d ELSE EmptyData

InitRehydrate ==
    /\ envKey = FALSE
    /\ settings = Settings(envKey)
    /\ resumes = {}
    /\ jobs = {}
    /\ matches = {}
    /\ ops = [o \in 1..MaxOps |-> IdleFrame]
    /\ \E field \in RowFields :
          \E v \in StoredValues(field), c \in ColumnValues(field), isDict \in BOOLEAN :
             harness = [kind |-> "rehydrate", pc |-> "row",
                        row |-> IF isDict THEN RowWith(field, v, c)
                                ELSE [EmptyRow EXCEPT ![field] = c,
                                                      !.structured_data = Null],
                        stored |-> Null, read |-> Null, match |-> Null]

\* ParsedResume.from_storage(resume.raw_text, stored)
RehydrateStorage ==
    /\ harness.kind = "rehydrate"
    /\ harness.pc = "row"
    /\ harness' = [harness EXCEPT
          !.pc = "stored",
          !.stored = from_storage(harness.row.raw_text, StoredMapping(harness.row))]
    /\ UNCHANGED <<settings, envKey, resumes, jobs, matches, ops>>

\* _resume_to_schema(resume)
RehydrateRead ==
    /\ harness.kind = "rehydrate"
    /\ harness.pc = "stored"
    /\ harness' = [harness EXCEPT !.pc = "read",
                                  !.read = RehydrateForRead(harness.row)]
    /\ UNCHANGED <<settings, envKey, resumes, jobs, matches, ops>>

\* the rebuild of match_job
RehydrateMatch ==
    /\ harness.kind = "rehydrate"
    /\ harness.pc = "read"
    /\ harness' = [harness EXCEPT !.pc = "matched",
                                  !.match = RehydrateForMatch(harness.row)]
    /\ UNCHANGED <<settings, envKey, resumes, jobs, matches, ops>>

NextRehydrate ==
    \/ RehydrateStorage
    \/ RehydrateRead
    \/ RehydrateMatch

SpecRehydrate == InitRehydrate /\ [][NextRehydrate]_vars

-----------------------------------------------------------------------------
(* Properties.                                                             *)

Ids(rows) == {r.id : r \in rows}
PairRows(rows, resume_id, job_id) ==
    {m \in rows : m.resume_id = resume_id /\ m.job_id = job_id}

\* the outcome of the fallback path of LLMMatcher.score
FallbackOutcome(resume, job) ==
    IF heuristic_match(resume, job).raised THEN [raised |-> TRUE]
    ELSE [raised |-> FALSE, score |-> heuristic_match(resume, job).score,
          reasoning |-> heuristic_match(resume, job).reasoning, model_used |-> Null]

UniquePairs ==
    \A m1, m2 \in matches :
        (m1.resume_id = m2.resume_id /\ m1.job_id = m2.job_id) => m1.id = m2.id

\* a step in which a request commits the upsert of its current resume
UpsertCommitted(o) == ops[o].pc = "write" /\ ops'[o].pc \in {"score", "finish"}

UpsertInPlace ==
    \A o \in DOMAIN ops :
        UpsertCommitted(o) =>
            LET frame == ops[o]
                resume_id == frame.resumes[frame.i].id
                before == PairRows(matches, resume_id, frame.job.id)
                after == PairRows(matches', resume_id, frame.job.id)
            IN /\ Cardinality(after) = 1
               /\ \A m \in after :
                     /\ m.score = frame.pending.score
                     /\ m.reasoning = frame.pending.reasoning
                     /\ m.llm_model = frame.pending.model_used
                     /\ \A old \in before : old.id = m.id
               /\ matches' \ after = matches \ before

\* C1: with the requests served one at a time, the store never holds two
\* Match rows of one (resume_id, job_id) pair, and every committed upsert
\* leaves exactly one row of its pair, which keeps the id of the row that was
\* there before and holds the score, reasoning and llm_model of this scoring
\* (llm_model None after a heuristic scoring), all other rows untouched.
C1_UpsertOverwritesInPlace == []UniquePairs /\ [][UpsertInPlace]_vars

\* C1 witness: a pair scored by the model before has been rescored by the
\* heuristic; its row kept its id and its llm_model is None again.
C1_Witness ==
    /\ ops[1].pc = "finish"
    /\ ops[1].existing # Null
    /\ ops[1].existing.llm_model # Null
    /\ \E m \in matches :
          /\ m.id = ops[1].existing.id
          /\ m.llm_model = Null
          /\ m.score # ops[1].existing.score

\* C2: under concurrent requests the store never holds two Match rows of one
\* (resume_id, job_id) pair.
C2_NoDuplicateUnderConcurrency ==
    \A m1 \in matches : Cardinality(PairRows(matches, m1.resume_id, m1.job_id)) = 1

Called == harness.kind = "score" /\ harness.calls > 0

\* C3: LLMMatcher.score never raises: every call returns a triple.
C3_ScoreNeverRaises == Called => ~harness.result.raised

\* the response of the model is a JSON object that holds a score
HoldsScoredObject(llm) ==
    /\ llm.kind = "text"
    /\ llm.text.form \in {"json", "wrapped"}
    /\ llm.text.v.t = "dict"
    /\ llm.text.v.score.t # "absent"

PrimaryFailed == ~harness.matcher.client \/ ~HoldsScoredObject(harness.llm)

\* C4: when the primary path fails (no client, the call raises, the response
\* is no JSON object with a score) the call returns what heuristic_match
\* returns with model_used None, and model_used is the model name only when
\* the primary path succeeded.
C4_FailureFallsBack ==
    Called =>
        /\ PrimaryFailed =>
              harness.result = FallbackOutcome(harness.resume, harness.job)
        /\ (~harness.result.raised /\ harness.result.model_used # Null) =>
              ~PrimaryFailed

\* C5: the score LLMMatcher.score returns lies in [0, 10].
C5_ScoreInRange ==
    (Called /\ ~harness.result.raised) =>
        (0 <= harness.result.score /\ harness.result.score <= 1000)

\* C6: a matcher built from settings without a key never holds a client, never
\* invokes the external model and returns on every call what heuristic_match
\* returns with model_used None, whatever the environment holds by then.
C6_UnconfiguredStaysHeuristic ==
    (harness.kind = "score" /\ harness.matcher # Null /\ ~settings.openai_api_key) =>
        /\ ~harness.matcher.client
        /\ harness.invoked = 0
        /\ harness.calls > 0 =>
              harness.result = FallbackOutcome(harness.resume, harness.job)

\* C6 witness: the key has appeared in the environment, and the matcher built
\* without it has answered two calls from the heuristic.
C6_Witness ==
    /\ harness.kind = "score"
    /\ ~settings.openai_api_key
    /\ envKey
    /\ harness.calls >= 2
    /\ ~harness.result.raised
    /\ harness.result.model_used = Null
    /\ harness.llm.kind = "text"

Answered(o) == ops[o].pc = "done" /\ ops[o].response.status = 200

\* C7: every match a job-match request returns has a score of at least 7.0.
C7_ShortlistAboveThreshold ==
    \A o \in DOMAIN ops :
        Answered(o) =>
            \A k \in DOMAIN ops[o].response.shortlisted :
                ops[o].response.shortlisted[k].score >= ShortlistThreshold

\* C7 witness: a request over two resumes, the matches of both below 7.0, has
\* returned an empty shortlist.
C7_Witness ==
    /\ Answered(1)
    /\ Len(ops[1].scored) = 2
    /\ Cardinality(PairRows(matches, 1, ops[1].job.id)) = 1
    /\ \A m \in matches : m.job_id = ops[1].job.id => m.score < ShortlistThreshold
    /\ ops[1].response.shortlisted = <<>>

\* the entries a shortlist may hold, and their order: higher score first,
\* equal scores in the order of the batch
Qualifies(entries) == {k \in DOMAIN entries : entries[k].score >= ShortlistThreshold}
Before(entries, a, b) ==
    \/ entries[a].score > entries[b].score
    \/ entries[a].score = entries[b].score /\ a < b
RankOf(entries, k) ==
    1 + Cardinality({j \in Qualifies(entries) : Before(entries, j, k)})
Reference(entries, limit) ==
    [p \in 1..Min(limit, Cardinality(Qualifies(entries))) |->
        entries[CHOOSE k \in Qualifies(entries) : RankOf(entries, k) = p]]

\* C8: for a limit L >= 0, shortlist_matches returns the entries of score
\* >= 7.0 by descending score, equal scores in their order in the batch, cut
\* to the first L; every entry returned is an entry of the batch, none twice.
C8_ShortlistIsReference ==
    (harness.kind = "shortlist" /\ harness.done /\ harness.limit >= 0) =>
        /\ harness.result = Reference(harness.entries, harness.limit)
        /\ \A p \in DOMAIN harness.result :
              \E k \in DOMAIN harness.entries : harness.result[p] = harness.entries[k]
        /\ \A p, q \in DOMAIN harness.result :
              harness.result[p].id = harness.result[q].id => p = q

\* C8 witness: a batch of three whose first entry is below 7.0 and whose other
\* two tie; with limit 1 the shortlist is the first of the two.
C8_Witness ==
    /\ harness.kind = "shortlist"
    /\ harness.done
    /\ harness.limit = 1
    /\ Len(harness.entries) = 3
    /\ harness.entries[1].score < ShortlistThreshold
    /\ harness.entries[2].score >= ShortlistThreshold
    /\ harness.entries[2].score = harness.entries[3].score
    /\ harness.result = <<harness.entries[2]>>

\* C9: the shortlist a job-match request returns holds at most shortlist_size
\* entries when the caller gives one (0 included), and at most max_shortlist
\* otherwise.
C9_ShortlistWithinLimit ==
    \A o \in DOMAIN ops :
        Answered(o) =>
            Len(ops[o].response.shortlisted)
                <= (IF ops[o].size # Null THEN ops[o].size.n
                    ELSE settings.max_shortlist)

Referenced == \A m \in matches : HasId(resumes, m.resume_id) /\ HasId(jobs, m.job_id)

CascadeOnly ==
    LET kept == {m \in matches :
                    HasId(resumes', m.resume_id) /\ HasId(jobs', m.job_id)}
    IN /\ Ids(kept) \subseteq Ids(matches')
       /\ Ids(matches \ kept) \cap Ids(matches') = {}
       /\ (resumes' # resumes \/ jobs' # jobs) => matches' = kept

\* C10: with the requests served one at a time, every Match row references a
\* resume and a job that exist; a step removes a Match row if and only if it
\* deletes the row's resume or job, and a deletion leaves every other row as
\* it was.
C10_RemovedOnlyByCascade == []Referenced /\ [][CascadeOnly]_vars

\* C10 witness: resume 1 and its match are gone, resume 2 and its match are
\* still there.
C10_Witness ==
    /\ ~HasId(resumes, 1)
    /\ HasId(resumes, 2)
    /\ ~HasId(matches, 1)
    /\ \E m \in matches : m.id = 2 /\ m.resume_id = 2

\* the skills of a resume that are strings, lower-cased
ClaimResumeSkills(resume) ==
    {Lower(resume.skills.items[i].s) :
        i \in {k \in DOMAIN resume.skills.items : resume.skills.items[k].t = "str"}}
ClaimRequiredSkills(job) == {Lower(job.required_skills[i]) : i \in DOMAIN job.required_skills}

\* skill_score as a fraction
ClaimSkillNum(resume, job) ==
    IF ClaimRequiredSkills(job) = {}
    THEN (IF resume.skills.items # <<>> THEN 1 ELSE 0)
    ELSE Cardinality(ClaimResumeSkills(resume) \cap ClaimRequiredSkills(job))
ClaimSkillDen(resume, job) ==
    IF ClaimRequiredSkills(job) = {} THEN 1 ELSE Cardinality(ClaimRequiredSkills(job))

\* experience_score as a fraction
ClaimYears(resume) ==
    IF resume.experience_years = Null THEN 0 ELSE resume.experience_years.n
ClaimExperienceNum(resume, job) ==
    LET required == _estimate_required_experience(job.description)
    IN IF required <= 0 THEN 1
       ELSE IF ClaimYears(resume) < 0 THEN 0
       ELSE IF ClaimYears(resume) > required THEN required
       ELSE ClaimYears(resume)
ClaimExperienceDen(resume, job) ==
    LET required == _estimate_required_experience(job.description)
    IN IF required <= 0 THEN 1 ELSE required

\* q hundredths is 10 * (0.7 * sn/sd + 0.3 * en/ed) rounded to two decimals:
\* q lies within half a hundredth of 100 * (7 * sn/sd + 3 * en/ed)
IsRounded(q, sn, sd, en, ed) ==
    LET twice == 2 * q * sd * ed - 200 * (SkillWeight * sn * ed + ExperienceWeight * en * sd)
    IN -(sd * ed) <= twice /\ twice <= sd * ed

Restored == harness.kind = "parse" /\ harness.pc = "restored"

\* C12: the resume rebuilt by from_storage from the as_dict form of a parse
\* has the skills, the experience_years and the education_entries (the same
\* entries in the same order) of the parse.
C12_RoundTrip ==
    Restored =>
        /\ harness.restored.skills = harness.parsed.skills
        /\ harness.restored.experience_years = harness.parsed.experience_years
        /\ harness.restored.education_entries = harness.parsed.education_entries

\* C12 witness: a text with skills, years of experience and an education
\* entry has been parsed and rebuilt.
C12_Witness ==
    /\ Restored
    /\ harness.restored.skills = List(<<Str("aws"), Str("python")>>)
    /\ harness.restored.experience_years = Num(500)
    /\ Len(harness.restored.education_entries.items) = 1
    /\ harness.restored.education_entries.items[1].summary = <<"BSc 2017">>

RECURSIVE Ascending(_)
\* the numbers of a set in ascending order
Ascending(S) ==
    IF S = {} THEN <<>>
    ELSE LET m == CHOOSE x \in S : \A y \in S : x <= y
         IN <<m>> \o Ascending(S \ {m})

RECURSIVE StripAll(_)
StripAll(lines) ==
    IF lines = <<>> THEN <<>> ELSE <<Strip(Head(lines))>> \o StripAll(Tail(lines))

\* the lines of the text that are headers of the education section
EducationHeaders(text) == {i \in DOMAIN text : HeaderOf(Strip(text[i])) = "education"}

\* the lines of the education section: from its header to the next header
EducationRegion(text) ==
    LET h == CHOOSE i \in EducationHeaders(text) : TRUE
        later == {j \in DOMAIN text : j > h /\ HeaderOf(Strip(text[j])) # ""}
        last == IF later = {} THEN Len(text)
                ELSE (CHOOSE j \in later : \A k \in later : j <= k) - 1
    IN SubSeq(text, h + 1, last)

\* the blocks of the education section: its runs of non-blank lines
EducationBlocks(text) == SplitBlocks(StripAll(EducationRegion(text)), <<>>)

Parsed == harness.kind = "parse" /\ harness.pc \in {"parsed", "restored"}

\* C17: for a text whose education section holds k blocks separated by blank
\* lines, parse_resume_text yields k education entries, one per block in
\* document order; the summary of an entry is the text of its block and its
\* years are the four-digit numbers of the block, deduplicated, ascending,
\* joined with "-".
C17_EducationEntryPerBlock ==
    (Parsed /\ Cardinality(EducationHeaders(harness.text)) = 1) =>
        harness.parsed.education_entries.items =
            [k \in DOMAIN EducationBlocks(harness.text) |->
                EducationEntry(EducationBlocks(harness.text)[k])]

\* the section a stripped line names when its lower-cased form, or that form
\* without one trailing colon, is a keyword
HeaderOfOneColon(line) ==
    CASE line = "Skills" -> "skills"
      [] line = "Experience" -> "experience"
      [] line = "Education:" -> "education"
      [] OTHER -> ""

SectionKeys == {"summary", "experience", "education", "skills", "projects"}

\* the section current at line i: the one named by the last header before it
CurrentAt(text, i, Header(_)) ==
    LET headers == {j \in 1..(i - 1) : Header(Strip(text[j])) # ""}
    IN IF headers = {} THEN "summary"
       ELSE Header(Strip(text[CHOOSE j \in headers : \A k \in headers : k <= j]))

\* the body of a section: the trimmed non-blank lines that are no headers and
\* stand where the section is current, in the order of the text
BodyLines(text, section, Header(_)) ==
    LET at == Ascending({i \in DOMAIN text :
                            /\ Strip(text[i]) # ""
                            /\ Header(Strip(text[i])) = ""
                            /\ CurrentAt(text, i, Header) = section})
    IN [k \in DOMAIN at |-> Strip(text[at[k]])]

BodyIn(split, section) ==
    IF section \in DOMAIN split.sections THEN split.sections[section] ELSE <<>>

Segmented(Header(_)) ==
    /\ DOMAIN harness.split.sections \subseteq SectionKeys
    /\ \A section \in SectionKeys :
          BodyIn(harness.split, section) = BodyLines(harness.text, section, Header)

SplitDone == harness.kind = "parse" /\ harness.pc # "text"

\* C18: _split_into_sections starts in "summary"; a line that, trimmed and
\* lower-cased, is a header keyword, with or without one trailing colon,
\* switches the current section and is stored nowhere; every other non-blank
\* line is appended, trimmed, to the body of the section current at that
\* point; blank lines are not stored and switch nothing.
C18_Segmentation == SplitDone => Segmented(HeaderOfOneColon)

\* C18 as amended: the same, a header being a line that is a keyword after
\* all its trailing colons are removed.
C18_SegmentationAnyColons == SplitDone => Segmented(HeaderOf)

\* C18 witness: a name, a header with two colons, a blank line and a padded
\* line: the name is the summary and the trimmed line the body of skills.
C18_Witness ==
    /\ SplitDone
    /\ harness.text = <<"Jane Doe", "Skills::", "   ", "  Python, AWS ">>
    /\ harness.split.sections["summary"] = <<"Jane Doe">>
    /\ harness.split.sections["skills"] = <<"Python, AWS">>

MergedFields ==
    {"contact_email", "contact_phone", "skills", "experience_years",
     "education_entries", "candidate_name"}

\* a structured value that is present: not null, not an empty list or string
Present(v) == v.t \notin {"absent", "null"} /\ v # List(<<>>) /\ v # Str("")

\* a structured value of the type of its field
OfFieldType(field, v) ==
    CASE field \in {"candidate_name", "contact_email", "contact_phone"} -> v.t = "str"
      [] field \in {"skills", "education_entries"} -> v.t = "list"
      [] OTHER -> v.t \in {"num", "int"}

\* the value as a ParsedResume holds it: an int is held as a float
Held(v) == IF v.t = "int" THEN Num(100 * v.n) ELSE v

TakesStructured(rebuilt) ==
    \A field \in MergedFields :
        LET v == StoredMapping(harness.row)[field]
        IN (Present(v) /\ OfFieldType(field, v)) =>
              (rebuilt # Raised /\ rebuilt[field] = Held(v))

\* C16: a resume rebuilt for reading or for matching holds, for contact_email,
\* contact_phone, skills, experience_years, education_entries and
\* candidate_name, the value of the persisted structured data whenever that
\* value is present, an experience_years of 0 included; the column of the same
\* name is used only when the structured value is empty or absent.
C16_StructuredValueWins ==
    /\ (harness.kind = "rehydrate" /\ harness.pc \in {"read", "matched"}) =>
          TakesStructured(harness.read)
    /\ (harness.kind = "rehydrate" /\ harness.pc = "matched") =>
          TakesStructured(harness.match)

\* the float a value of experience_years stands for, when it stands for one
StandsForFloat(v) == v.t \in {"num", "int"} \/ (v.t = "str" /\ v.s \in NumericStrings)
FloatValue(v) ==
    CASE v.t = "num" -> v
      [] v.t = "int" -> Num(100 * v.n)
      [] OTHER -> Num(StrToNum(v.s))

\* C19: from_storage never raises on a mapping whose values have unexpected
\* types: candidate_name, contact_email and contact_phone that are no strings
\* become None, skills and education_entries that are no lists become empty
\* lists, sections that is no mapping becomes empty, experience_years becomes
\* the float of a number or numeric-looking string and None otherwise (a bool
\* may count either way, an int too large for a float must not raise).
C19_FromStorageTolerates ==
    (harness.kind = "rehydrate" /\ harness.pc # "row") =>
        LET data == StoredMapping(harness.row)
            result == harness.stored
        IN /\ result # Raised
           /\ \A field \in {"candidate_name", "contact_email", "contact_phone"} :
                 result[field] = (IF data[field].t = "str" THEN data[field] ELSE Null)
           /\ \A field \in {"skills", "education_entries"} :
                 result[field] = (IF data[field].t = "list" THEN data[field]
                                  ELSE List(<<>>))
           /\ data.sections.t # "dict" =>
                 result.sections = [t |-> "dict", bodies |-> <<>>, section_order |-> <<>>]
           /\ StandsForFloat(data.experience_years) =>
                 result.experience_years = FloatValue(data.experience_years)
           /\ (~StandsForFloat(data.experience_years)
                  /\ data.experience_years.t \notin {"bool", "bigint"}) =>
                 result.experience_years = Null

\* the batch of the request holds resumes it has not started to score
MoreToScore(frame) == frame.i < Len(frame.resumes)

\* C14: while the call of the model for one resume of a batch is outstanding,
\* the scoring of another resume of the same batch can start.
C14_SameBatchNotBlocked ==
    \A o \in DOMAIN ops :
        (Outstanding(ops[o]) /\ MoreToScore(ops[o])) => ENABLED MatchDispatch(o)

\* C14 as amended: while the call of the model for one resume is outstanding,
\* every other request can go on (begin, start the scoring of its resume, get
\* the score of its resume), and the scoring of the next resume of the same
\* batch cannot start before the call has returned.
C14_OtherRequestsNotBlocked ==
    \A o \in DOMAIN ops :
        Outstanding(ops[o]) =>
            /\ ~ENABLED MatchDispatch(o)
            /\ \A p \in DOMAIN ops \ {o} :
                  /\ ops[p].pc = "idle" => ENABLED MatchBegin(p, 1, Null)
                  /\ ops[p].pc = "score" => ENABLED MatchDispatch(p)
                  /\ ops[p].pc = "calling" =>
                        ENABLED (\E llm \in LLMBehaviours : MatchScore(p, llm))

\* C14 witness: the call for the first resume of request 1 is outstanding, and
\* request 2 has scored and stored both resumes of its batch.
C14_Witness ==
    /\ Outstanding(ops[1])
    /\ ops[1].i = 1
    /\ ops[2].pc = "finish"
    /\ Len(ops[2].scored) = 2

\* the request has found its job and works on its batch
HasBatch(frame) == frame.pc # "idle" /\ frame.job # Null

\* the Match of the k-th resume of the batch is in the store as the request
\* wrote it
Committed(frame, k) ==
    \E m \in matches :
        /\ m.id = frame.scored[k].id
        /\ m.resume_id = frame.resumes[k].id
        /\ m.job_id = frame.job.id
        /\ m.score = frame.scored[k].score
        /\ m.reasoning = frame.scored[k].reasoning
        /\ m.llm_model = frame.scored[k].llm_model

\* the i-th resume is scored and upserted after the upserts of the i - 1
\* resumes before it are committed
InIterationOrder ==
    \A o \in DOMAIN ops :
        LET frame == ops[o]
        IN /\ frame.pc \in {"score", "calling", "select", "write"} =>
                 /\ frame.i \in DOMAIN frame.resumes
                 /\ Len(frame.scored) = frame.i - 1
                 /\ \A k \in DOMAIN frame.scored : Committed(frame, k)
           /\ frame.pc = "finish" => Len(frame.scored) = Len(frame.resumes)

\* no resume stands twice in a batch, and none has two upserts
EachResumeOnce ==
    \A o \in DOMAIN ops :
        LET frame == ops[o]
        IN HasBatch(frame) =>
              /\ Len(frame.scored) <= Len(frame.resumes)
              /\ \A k, l \in DOMAIN frame.resumes :
                    frame.resumes[k].id = frame.resumes[l].id => k = l
              /\ \A k, l \in DOMAIN frame.scored :
                    frame.scored[k].id = frame.scored[l].id => k = l

\* the shortlist of a response runs from the highest score to the lowest
ByScoreOnly ==
    \A o \in DOMAIN ops :
        Answered(o) =>
            \A k, l \in DOMAIN ops[o].response.shortlisted :
                k < l => ops[o].response.shortlisted[k].score
                            >= ops[o].response.shortlisted[l].score

\* C13: within one job-match request the resumes are handled in the order of
\* the resume collection: the upsert of the i-th resume is committed before
\* the scoring of the next begins, no resume is scored or upserted twice, and
\* the shortlist returned is ordered by score, not by that order.
C13_HandledInOrder == InIterationOrder /\ EachResumeOnce /\ ByScoreOnly

\* C13 witness: a request over two resumes has returned both, the resume
\* handled second ahead of the resume handled first.
C13_Witness ==
    /\ Answered(1)
    /\ Len(ops[1].scored) = 2
    /\ Len(ops[1].response.shortlisted) = 2
    /\ ops[1].response.shortlisted[1].resume_id = ops[1].resumes[2].id
    /\ ops[1].response.shortlisted[2].resume_id = ops[1].resumes[1].id

\* the request has stopped before the end of its batch
Stopped(frame) ==
    frame.pc = "done" /\ frame.job # Null /\ frame.response.status # 200

\* what the request has upserted stays in the store
UpsertsPersist ==
    \A o \in DOMAIN ops :
        HasBatch(ops[o]) => \A k \in DOMAIN ops[o].scored : Committed(ops[o], k)

\* the step in which a request stops, and every step after it, leaves the
\* matches as they are
StopKeepsMatches ==
    \A o \in DOMAIN ops :
        (Stopped(ops[o]) \/ Stopped(ops'[o])) => matches' = matches

\* the Match rows of the resumes the request has not reached are not written
RemainingUntouched ==
    \A o \in DOMAIN ops :
        LET frame == ops[o]
        IN frame.pc \in {"score", "calling", "select", "write"} =>
              \A m \in matches :
                  (/\ m.job_id = frame.job.id
                   /\ \E k \in DOMAIN frame.resumes :
                         k > frame.i /\ frame.resumes[k].id = m.resume_id)
                  => m \in matches'

\* C15: when a job-match request stops after the upserts of its first k
\* resumes, the Match rows of those k resumes stay in the store with their new
\* score, reasoning and llm_model, no upsert is issued for the other resumes,
\* and the Match rows of the other resumes are left as they were.
C15_StopKeepsCommitted ==
    []UpsertsPersist /\ [][StopKeepsMatches /\ RemainingUntouched]_vars

\* C15 witness: a request over two resumes was cancelled during the call for
\* the second: the row of the first, written by the heuristic in an earlier
\* run, holds the score of the model now; the row of the second is still there.
C15_Witness ==
    /\ Stopped(ops[1])
    /\ Len(ops[1].resumes) = 2
    /\ Len(ops[1].scored) = 1
    /\ ops[1].existing # Null
    /\ ops[1].existing.llm_model = Null
    /\ ops[1].scored[1].llm_model # Null
    /\ Committed(ops[1], 1)
    /\ \E m \in matches :
          m.resume_id = ops[1].resumes[2].id /\ m.job_id = ops[1].job.id

StoredFields ==
    {"candidate_name", "contact_email", "contact_phone", "skills",
     "experience_years", "education_entries"}

\* the columns of every stored resume equal the fields of its structured_data
SelfConsistent ==
    \A r \in resumes :
        /\ r.structured_data.t = "dict"
        /\ \A field \in StoredFields : r[field] = r.structured_data.d[field]

\* a stored resume is never changed: it stays as it is or is deleted
NeverChanged == \A r \in resumes : r \in resumes' \/ ~HasId(resumes', r.id)

\* a new resume holds what the parser finds in its text, whatever skills or
\* structured_data the caller sent; only its name may be the caller's
CreatedFromText ==
    \A r \in resumes' \ resumes :
        LET parsed == parse_resume_text(r.raw_text)
        IN /\ r.skills = parsed.skills
           /\ r.experience_years = parsed.experience_years
           /\ r.education_entries = parsed.education_entries
           /\ r.contact_email = parsed.contact_email
           /\ r.structured_data.d.sections = parsed.sections
           /\ r.candidate_name \in {parsed.candidate_name} \cup (SampleNames \ {Null})

\* C20: for every stored resume the columns candidate_name, contact_email,
\* contact_phone, skills, experience_years and education_entries equal the
\* fields of the same name of its structured_data (a name given by the caller
\* stands in both, skills and structured_data given by the caller in
\* neither), and no operation changes a stored resume.
C20_StoredResumeSelfConsistent ==
    []SelfConsistent /\ [][NeverChanged /\ CreatedFromText]_vars

\* C20 witness: a resume whose text names Jane Doe is stored under the name
\* the caller gave, in the column and in structured_data.
C20_Witness ==
    \E r \in resumes :
        /\ _infer_name(r.raw_text) = Str("Jane Doe")
        /\ r.candidate_name = Str("John Smith")
        /\ r.structured_data.d.candidate_name = Str("John Smith")

\* the Match rows of the job of a request
JobRows(frame) == {m \in matches : m.job_id = frame.job.id}

\* the row is one this request wrote, as it wrote it
ScoredHere(frame, m) ==
    \E k \in DOMAIN frame.scored :
        /\ frame.resumes[k].id = m.resume_id
        /\ frame.scored[k].id = m.id
        /\ frame.scored[k].score = m.score
        /\ frame.scored[k].reasoning = m.reasoning
        /\ frame.scored[k].llm_model = m.llm_model

\* every resume of the store has one Match row for the job, written by this
\* request
OneMatchEach(frame) ==
    \A r \in resumes :
        LET rows == {m \in JobRows(frame) : m.resume_id = r.id}
        IN Cardinality(rows) = 1 /\ \A m \in rows : ScoredHere(frame, m)

\* the shortlist holds rows this request wrote, and leaves out no such row
\* that reaches the threshold unless the shortlist is full
ShortlistOfThose(frame) ==
    LET shortlisted == frame.response.shortlisted
    IN /\ \A k \in DOMAIN shortlisted :
             shortlisted[k] \in matches /\ ScoredHere(frame, shortlisted[k])
       /\ \A m \in JobRows(frame) : ScoredHere(frame, m)
       /\ Len(shortlisted) < frame.limit =>
             \A m \in JobRows(frame) :
                 m.score >= ShortlistThreshold =>
                     \E k \in DOMAIN shortlisted : shortlisted[k] = m

\* a request that has run alone to its end leaves one fresh Match row for
\* every resume and answers from those rows
SoloCoversStore ==
    SoloOp \in DOMAIN ops =>
        (Answered(SoloOp) =>
            OneMatchEach(ops[SoloOp]) /\ ShortlistOfThose(ops[SoloOp]))

\* a request for a job that does not exist answers 404
NotFound(frame) == frame.pc = "done" /\ frame.response.status = 404

\* the request that answers 404 writes no Match row, and a request for a job
\* answers 404 exactly when the store has no such job
NotFoundWritesNothing ==
    \A o \in DOMAIN ops :
        /\ (NotFound(ops[o]) \/ NotFound(ops'[o])) /\ ops'[o] # ops[o]
              => matches' = matches
        /\ ops[o].pc = "idle" /\ ops'[o].pc # "idle" =>
              IF NotFound(ops'[o])
              THEN \E j \in 1..MaxJobs + 1 : ~HasId(jobs, j)
              ELSE ops'[o].job \in jobs

\* C21: when a job-match request for an existing job runs to completion with
\* no other request in flight, every resume of the store has exactly one
\* Match row for that job, written by this request, and the shortlist returned
\* is computed from exactly those rows; a request for a job that does not
\* exist answers not-found and writes no Match row.
C21_SoloMatchCoversStore == []SoloCoversStore /\ [][NotFoundWritesNothing]_vars

====
